---------------------------- MODULE Spec2Model ----------------------------
(***************************************************************************)
(* Model of the call-signalling gateway (CallGateway) of tutorhub-server.  *)
(*                                                                         *)
(* The gateway keeps one map of its own, socketList (connection id ->      *)
(* {userName, video, audio}); room membership is kept by the socket.io     *)
(* adapter and is reached through client.join, socket.leave,               *)
(* server.to(room) and client.broadcast.to(room).  Every handler is one    *)
(* atomic step, except handleCheckUser and handleJoinRoom, which read the  *)
(* membership with allSockets() and continue in a later step.              *)
(*                                                                         *)
(* The second part models two services over the document store:            *)
(* AuthService.register / verifyEmail with the TemporaryUser, Student and  *)
(* Tutor collections, and AppointmentService.requestAppointment with the   *)
(* Appointment collection.  Every await of a service method is a step.     *)
(***************************************************************************)
EXTENDS Naturals, FiniteSets, Sequences

\* ------------------------------------------------------------------ bounds
\* Handlers that may be suspended at allSockets() at the same time.
MaxPending == 1

\* ------------------------------------------------------------- input sets
\* Socket ids the transport hands out; an id is never reused.
ConnId == {"c1", "c2"}
RoomName == {"R1", "R2"}
\* socket.io puts every socket in a room named by its own id, and
\* client.join takes any string: ids and names share one namespace.
RoomKey == RoomName \cup ConnId
UserName == {"alice", "Alice"}
SwitchTarget == {"video", "audio", "screen"}
Signal == {"offer", "answer"}
Msg == {"hi"}

\* ------------------------------------------------------------------ state
VARIABLES
    status,      \* connection id -> "new" | "live" | "closed" (transport)
    rooms,       \* adapter: room key -> set of socket ids in the room
    socketList,  \* CallGateway.socketList
    pending,     \* handlers suspended at allSockets(), any resumption order
    emitted,     \* what the last step emitted: <<>> or <<[ev, rcpt, payload]>>
    last         \* the last step taken: handler, sender, payload, outcome

VARIABLES
    tempUsers,   \* TemporaryUser collection: set of documents
    students,    \* Student collection: _id -> [email, appointments]
    tutors,      \* Tutor collection: _id -> [email, appointments]
    appointments,\* Appointment collection: _id -> [student, tutor, status]
    reg,         \* register calls: registration -> position and outcome
    verify,      \* verifyEmail calls: caller -> position, inputs, outcome
    request,     \* requestAppointment calls: caller -> position, outcome
    hourPassed   \* Date.now() is past the expiresAt of the documents saved

gatewayVars == <<status, rooms, socketList, pending, emitted, last>>

serviceVars == <<tempUsers, students, tutors, appointments, reg, verify,
                 request, hourPassed>>

vars == <<status, rooms, socketList, pending, emitted, last,
          tempUsers, students, tutors, appointments, reg, verify,
          request, hourPassed>>

\* ------------------------------------------------------- transport helpers
\* client.join(room): the adapter adds the socket id to the room's Set.
SocketJoin(rs, id, room) == [rs EXCEPT ![room] = @ \cup {id}]

\* socket.leave(room): the adapter deletes the socket id from the room's Set.
SocketLeave(rs, id, room) == [rs EXCEPT ![room] = @ \ {id}]

\* this.server.sockets.sockets[leaverId].  In the socket.io releases that
\* have allSockets(), Namespace.sockets is a Map<SocketId, Socket>; bracket
\* access reads a property of the Map object, not an entry, so the result
\* is undefined for every socket id.  The empty set stands for undefined.
SocketsProperty(id) == {}

\* A server.emit that drops .to(room) reaches every connected socket.
ServerToAll(rs, room) == UNION {rs[k] : k \in DOMAIN rs}

\* this.server.to(room): every socket in the room.
ServerTo(rs, room) == rs[room]

\* A server.to(room) in place of client.broadcast.to(room) echoes to the sender.
BroadcastToAll(rs, id, room) == rs[room]

\* client.broadcast.to(room): every socket in the room except the sender.
BroadcastTo(rs, id, room) == rs[room] \ {id}

\* client.emit: reaches the client while its connection is open.
ClientEmit(st, id) == IF st[id] = "live" THEN {id} ELSE {}

\* this.server.to(room).allSockets(): the ids in the room when it is called.
AllSockets(rs, room) == rs[room]

\* ------------------------------------------------------ socketList helpers
HasPresence(list, id) == id \in DOMAIN list

\* this.socketList[id] as an option: {} is undefined.
Info(list, id) == IF id \in DOMAIN list THEN {list[id]} ELSE {}

NewPresence(name) == [userName |-> name, video |-> TRUE, audio |-> TRUE]

\* An overwrite that spreads the old entry keeps the flags it finds.
SetPresenceKeepFlags(list, id, name) ==
    [k \in DOMAIN list \cup {id} |->
        IF k # id THEN list[k]
        ELSE IF id \in DOMAIN list THEN [list[id] EXCEPT !.userName = name]
             ELSE NewPresence(name)]

\* this.socketList[client.id] = {userName, video: true, audio: true}
SetPresence(list, id, name) ==
    [k \in DOMAIN list \cup {id} |-> IF k = id THEN NewPresence(name) ELSE list[k]]

\* A delete keyed by display name drops every entry carrying the leaver's name.
DeletePresenceByName(list, id) ==
    [k \in {j \in DOMAIN list \ {id} :
                id \in DOMAIN list => list[j].userName # list[id].userName}
        |-> list[k]]

\* delete this.socketList[leaverId]
DeletePresence(list, id) == [k \in DOMAIN list \ {id} |-> list[k]]

\* if (switchTarget === 'video') video = !video; else audio = !audio;
FlipPresence(p, target) ==
    IF target = "video" THEN [p EXCEPT !.video = ~@] ELSE [p EXCEPT !.audio = ~@]

\* A comparison of lower-cased names takes "Alice" for "alice".
Lower(name) == IF name = "Alice" THEN "alice" ELSE name

UserExistsAnyCase(clients, list, name) ==
    \E c \in clients : HasPresence(list, c) /\ Lower(list[c].userName) = Lower(name)

\* clients.forEach(c => { if (socketList[c]?.userName === userName) error = true })
UserExists(clients, list, name) ==
    \E c \in clients : HasPresence(list, c) /\ list[c].userName = name

\* Array.from(clients).map(id => ({userId: id, info: socketList[id]}))
Users(clients, list) == {[userId |-> c, info |-> Info(list, c)] : c \in clients}

\* ---------------------------------------------------------- step records
NoStep ==
    [op |-> "init", client |-> "-", roomId |-> "-", name |-> "-", target |-> "-",
     from |-> "-", signal |-> "-", msg |-> "-", threw |-> FALSE, wasMember |-> FALSE,
     hadPresence |-> FALSE, clients |-> {}]

Step(op, client, roomId) ==
    [NoStep EXCEPT !.op = op, !.client = client, !.roomId = roomId,
                   !.wasMember = client \in rooms[roomId],
                   !.hadPresence = HasPresence(socketList, client)]

Emit(ev, rcpt, payload) == <<[ev |-> ev, rcpt |-> rcpt, payload |-> payload]>>

RemoveAt(s, i) == [j \in 1..(Len(s) - 1) |-> IF j < i THEN s[j] ELSE s[j + 1]]

\* ----------------------------------------------------- service input sets
\* One registration: the claims about verifyEmail are about the calls that
\* follow a single register.
RegId == {"r1"}
Email == {"e1", "e2"}
OneEmail == {"e1"}
Role == {"student", "tutor"}
\* Concurrent verifyEmail calls.
Caller == {"v1", "v2"}
\* The code a caller sends: the one mailed for a registration, a wrong one,
\* or none (undefined or the empty string).
Otp == RegId \cup {"wrong", "none"}
\* ObjectIds: those the store hands out and those a request may name.
UserId == {"u1", "u2"}
\* Concurrent requestAppointment calls; a call's document gets its id.
Requester == {"q1", "q2"}

\* ---------------------------------------------------- collection helpers
\* Model.exists({email}), and the unique index on email of a collection.
EmailExists(coll, e) == \E id \in DOMAIN coll : coll[id].email = e

\* Model.create(doc) succeeds iff no document of the collection has the email.
CanCreate(coll, e) == ~EmailExists(coll, e)

\* Model.create(doc): a document with a new _id and no appointments.
Insert(coll, id, e) ==
    [k \in DOMAIN coll \cup {id} |->
        IF k = id THEN [email |-> e, appointments |-> {}] ELSE coll[k]]

\* findByIdAndUpdate(id, {$push: {appointments: a}}): no document, no change.
PushAppointment(coll, id, a) ==
    IF id \in DOMAIN coll
    THEN [coll EXCEPT ![id].appointments = @ \cup {a}]
    ELSE coll

\* An _id no document carries yet.
FreshId == UserId \ (DOMAIN students \cup DOMAIN tutors)

IdleReg == [pc |-> "idle", email |-> "-", role |-> "-", result |-> "-"]

IdleVerify ==
    [pc |-> "idle", email |-> "-", otp |-> "-", doc |-> {}, result |-> "-",
     user |-> "-"]

IdleRequest == [pc |-> "idle", student |-> "-", tutor |-> "-", result |-> "-"]

\* ------------------------------------------------------------------- Init
Init ==
    /\ status = [c \in ConnId |-> "new"]
    /\ rooms = [r \in RoomKey |-> {}]
    /\ socketList = << >>
    /\ pending = << >>
    /\ emitted = << >>
    /\ last = NoStep
    /\ tempUsers = {}
    /\ students = << >>
    /\ tutors = << >>
    /\ appointments = << >>
    /\ reg = [r \in RegId |-> IdleReg]
    /\ verify = [v \in Caller |-> IdleVerify]
    /\ request = [q \in Requester |-> IdleRequest]
    /\ hourPassed = FALSE

\* ---------------------------------------------------------------- actions
\* A socket connects: socket.io joins it to the room named by its id, then
\* handleConnection only logs.
HandleConnection(c) ==
    /\ status[c] = "new"
    /\ status' = [status EXCEPT ![c] = "live"]
    /\ rooms' = SocketJoin(rooms, c, c)
    /\ emitted' = << >>
    /\ last' = [NoStep EXCEPT !.op = "connect", !.client = c]
    /\ UNCHANGED <<socketList, pending>>
    /\ UNCHANGED serviceVars

\* The transport closes a connection: socket.io removes the socket from
\* every room.  The gateway implements OnGatewayConnection only; it has no
\* handleDisconnect, so socketList is not touched and nobody is notified.
Disconnect(c) ==
    /\ status[c] = "live"
    /\ status' = [status EXCEPT ![c] = "closed"]
    /\ rooms' = [r \in RoomKey |-> rooms[r] \ {c}]
    /\ emitted' = << >>
    /\ last' = [NoStep EXCEPT !.op = "disconnect", !.client = c,
                              !.hadPresence = HasPresence(socketList, c)]
    /\ UNCHANGED <<socketList, pending>>
    /\ UNCHANGED serviceVars

\* BE-check-user, up to the call of allSockets(): nothing is changed, the
\* .then callback is queued with the member ids read at the call.
HandleCheckUser(c, roomId, userName) ==
    /\ status[c] = "live"
    /\ Len(pending) < MaxPending
    /\ pending' = Append(pending,
           [op |-> "check", client |-> c, roomId |-> roomId, name |-> userName,
            clients |-> AllSockets(rooms, roomId), rejoin |-> FALSE])
    /\ emitted' = << >>
    /\ last' = [Step("check-user", c, roomId) EXCEPT
                    !.name = userName, !.clients = AllSockets(rooms, roomId)]
    /\ UNCHANGED <<status, rooms, socketList>>
    /\ UNCHANGED serviceVars

\* The .then callback of handleCheckUser: compare the names found in
\* socketList now, answer the requester.
CheckUserThen(i) ==
    /\ i \in 1..Len(pending)
    /\ pending[i].op = "check"
    /\ LET p == pending[i]
           error == UserExists(p.clients, socketList, p.name)
       IN  /\ emitted' = Emit("FE-error-user-exist", ClientEmit(status, p.client),
                              [error |-> error])
           /\ last' = [NoStep EXCEPT !.op = "check-user-then", !.client = p.client,
                           !.roomId = p.roomId, !.name = p.name,
                           !.clients = p.clients]
    /\ pending' = RemoveAt(pending, i)
    /\ UNCHANGED <<status, rooms, socketList>>
    /\ UNCHANGED serviceVars

\* A join that first asks whether the name is taken in the room and returns
\* without joining when it is.
HandleJoinRoomUnique(c, roomId, userName) ==
    /\ status[c] = "live"
    /\ Len(pending) < MaxPending
    /\ IF UserExists(rooms[roomId] \ {c}, socketList, userName)
       THEN UNCHANGED <<rooms, socketList, pending>>
       ELSE /\ rooms' = SocketJoin(rooms, c, roomId)
            /\ socketList' = SetPresence(socketList, c, userName)
            /\ pending' = Append(pending,
                   [op |-> "join", client |-> c, roomId |-> roomId,
                    name |-> userName,
                    clients |-> AllSockets(SocketJoin(rooms, c, roomId), roomId),
                    rejoin |-> c \in rooms[roomId]])
    /\ emitted' = << >>
    /\ last' = [Step("join-room", c, roomId) EXCEPT
                    !.name = userName,
                    !.clients = AllSockets(SocketJoin(rooms, c, roomId), roomId)]
    /\ UNCHANGED status
    /\ UNCHANGED serviceVars

\* BE-join-room, up to the await: join the room, overwrite the presence,
\* call allSockets() on the room.
HandleJoinRoom(c, roomId, userName) ==
    /\ status[c] = "live"
    /\ Len(pending) < MaxPending
    /\ rooms' = SocketJoin(rooms, c, roomId)
    /\ socketList' = SetPresence(socketList, c, userName)
    /\ pending' = Append(pending,
           [op |-> "join", client |-> c, roomId |-> roomId, name |-> userName,
            clients |-> AllSockets(SocketJoin(rooms, c, roomId), roomId),
            rejoin |-> c \in rooms[roomId]])
    /\ emitted' = << >>
    /\ last' = [Step("join-room", c, roomId) EXCEPT
                    !.name = userName,
                    !.clients = AllSockets(SocketJoin(rooms, c, roomId), roomId)]
    /\ UNCHANGED status
    /\ UNCHANGED serviceVars

\* A resume that tells nobody when the sender was in the room already.
JoinRoomResumeOnce(i) ==
    /\ i \in 1..Len(pending)
    /\ pending[i].op = "join"
    /\ LET p == pending[i]
       IN  /\ emitted' = IF p.rejoin
                         THEN << >>
                         ELSE Emit("FE-user-join",
                                   BroadcastTo(rooms, p.client, p.roomId),
                                   Users(p.clients, socketList))
           /\ last' = [NoStep EXCEPT !.op = "join-room-resume", !.client = p.client,
                           !.roomId = p.roomId, !.name = p.name,
                           !.clients = p.clients, !.wasMember = p.rejoin]
    /\ pending' = RemoveAt(pending, i)
    /\ UNCHANGED <<status, rooms, socketList>>
    /\ UNCHANGED serviceVars

\* A handler that writes the presence after the await instead of before it.
JoinRoomResumeSetsPresence(i) ==
    /\ i \in 1..Len(pending)
    /\ pending[i].op = "join"
    /\ LET p == pending[i]
           list == SetPresence(socketList, p.client, p.name)
       IN  /\ socketList' = list
           /\ emitted' = Emit("FE-user-join", BroadcastTo(rooms, p.client, p.roomId),
                              Users(p.clients, list))
           /\ last' = [NoStep EXCEPT !.op = "join-room-resume", !.client = p.client,
                           !.roomId = p.roomId, !.name = p.name,
                           !.clients = p.clients, !.wasMember = p.rejoin]
    /\ pending' = RemoveAt(pending, i)
    /\ UNCHANGED <<status, rooms>>
    /\ UNCHANGED serviceVars

\* handleJoinRoom after the await resolved: build the user list from
\* socketList as it is now and broadcast it to the room without the sender.
JoinRoomResume(i) ==
    /\ i \in 1..Len(pending)
    /\ pending[i].op = "join"
    /\ LET p == pending[i]
       IN  /\ emitted' = Emit("FE-user-join", BroadcastTo(rooms, p.client, p.roomId),
                              Users(p.clients, socketList))
           /\ last' = [NoStep EXCEPT !.op = "join-room-resume", !.client = p.client,
                           !.roomId = p.roomId, !.name = p.name,
                           !.clients = p.clients, !.wasMember = p.rejoin]
    /\ pending' = RemoveAt(pending, i)
    /\ UNCHANGED <<status, rooms, socketList>>
    /\ UNCHANGED serviceVars

\* A catch block that emits through server.to(roomId) tells the whole room.
JoinRoomCatchToRoom(i) ==
    /\ i \in 1..Len(pending)
    /\ pending[i].op = "join"
    /\ LET p == pending[i]
       IN  /\ emitted' = Emit("FE-error-user-exist", ServerTo(rooms, p.roomId),
                              [err |-> TRUE])
           /\ last' = [NoStep EXCEPT !.op = "join-room-catch", !.client = p.client,
                           !.roomId = p.roomId, !.name = p.name,
                           !.wasMember = p.rejoin]
    /\ pending' = RemoveAt(pending, i)
    /\ UNCHANGED <<status, rooms, socketList>>
    /\ UNCHANGED serviceVars

\* handleJoinRoom when allSockets() rejects: the catch block answers the
\* requester with {err: true}.
JoinRoomCatch(i) ==
    /\ i \in 1..Len(pending)
    /\ pending[i].op = "join"
    /\ LET p == pending[i]
       IN  /\ emitted' = Emit("FE-error-user-exist", ClientEmit(status, p.client),
                              [err |-> TRUE])
           /\ last' = [NoStep EXCEPT !.op = "join-room-catch", !.client = p.client,
                           !.roomId = p.roomId, !.name = p.name,
                           !.wasMember = p.rejoin]
    /\ pending' = RemoveAt(pending, i)
    /\ UNCHANGED <<status, rooms, socketList>>
    /\ UNCHANGED serviceVars

\* BE-call-user: emit to the room named userToCall.
HandleCallUser(c, userToCall, from, signal) ==
    /\ status[c] = "live"
    /\ emitted' = Emit("FE-receive-call", ServerTo(rooms, userToCall),
                       [signal |-> signal, from |-> from,
                        info |-> Info(socketList, c)])
    /\ last' = [NoStep EXCEPT !.op = "call-user", !.client = c,
                    !.target = userToCall, !.from = from, !.signal = signal,
                    !.hadPresence = HasPresence(socketList, c)]
    /\ UNCHANGED <<status, rooms, socketList, pending>>
    /\ UNCHANGED serviceVars

\* BE-accept-call: emit to the room named to.
HandleAcceptCall(c, to, signal) ==
    /\ status[c] = "live"
    /\ emitted' = Emit("FE-call-accepted", ServerTo(rooms, to),
                       [signal |-> signal, answerId |-> c])
    /\ last' = [NoStep EXCEPT !.op = "accept-call", !.client = c,
                    !.target = to, !.signal = signal,
                    !.hadPresence = HasPresence(socketList, c)]
    /\ UNCHANGED <<status, rooms, socketList, pending>>
    /\ UNCHANGED serviceVars

\* A send-message that joins the sender to the room it writes to.
HandleSendMessageJoins(c, roomId, msg, sender) ==
    /\ status[c] = "live"
    /\ rooms' = SocketJoin(rooms, c, roomId)
    /\ emitted' = Emit("FE-receive-message", ServerTo(rooms, roomId),
                       [msg |-> msg, sender |-> sender])
    /\ last' = [Step("send-message", c, roomId) EXCEPT !.msg = msg, !.name = sender]
    /\ UNCHANGED <<status, socketList, pending>>
    /\ UNCHANGED serviceVars

\* BE-send-message: emit to every socket of the room.
HandleSendMessage(c, roomId, msg, sender) ==
    /\ status[c] = "live"
    /\ emitted' = Emit("FE-receive-message", ServerTo(rooms, roomId),
                       [msg |-> msg, sender |-> sender])
    /\ last' = [Step("send-message", c, roomId) EXCEPT !.msg = msg, !.name = sender]
    /\ UNCHANGED <<status, rooms, socketList, pending>>
    /\ UNCHANGED serviceVars

\* BE-leave-room: delete the presence, tell the others, then leave the room
\* through the socket found under sockets.sockets[leaverId], if any.
HandleLeaveRoom(c, roomId) ==
    /\ status[c] = "live"
    /\ socketList' = DeletePresence(socketList, c)
    /\ emitted' = Emit("FE-user-leave", BroadcastTo(rooms, c, roomId),
                       [userId |-> c, userName |-> <<c>>])
    /\ rooms' = IF SocketsProperty(c) # {}
                THEN SocketLeave(rooms, c, roomId)
                ELSE rooms
    /\ last' = Step("leave-room", c, roomId)
    /\ UNCHANGED <<status, pending>>
    /\ UNCHANGED serviceVars

\* BE-toggle-camera-audio: this.socketList[client.id].video on a missing
\* entry throws a TypeError before anything is emitted.
HandleToggleCameraAudio(c, roomId, switchTarget) ==
    /\ status[c] = "live"
    /\ IF HasPresence(socketList, c)
       THEN /\ socketList' = [socketList EXCEPT
                                  ![c] = FlipPresence(@, switchTarget)]
            /\ emitted' = Emit("FE-toggle-camera", BroadcastTo(rooms, c, roomId),
                               [userId |-> c, switchTarget |-> switchTarget])
            /\ last' = [Step("toggle", c, roomId) EXCEPT !.target = switchTarget]
       ELSE /\ socketList' = socketList
            /\ emitted' = << >>
            /\ last' = [Step("toggle", c, roomId) EXCEPT
                            !.target = switchTarget, !.threw = TRUE]
    /\ UNCHANGED <<status, rooms, pending>>
    /\ UNCHANGED serviceVars

\* -------------------------------------------------------- service actions
\* AuthService.register up to the email checks: Conflict when a student or
\* a tutor has the email.
RegisterCheck(r, e, role) ==
    /\ reg[r].pc = "idle"
    /\ reg' = [reg EXCEPT ![r] =
                  IF EmailExists(students, e) \/ EmailExists(tutors, e)
                  THEN [pc |-> "done", email |-> e, role |-> role,
                        result |-> "Conflict"]
                  ELSE [pc |-> "save", email |-> e, role |-> role,
                        result |-> "-"]]
    /\ UNCHANGED <<tempUsers, students, tutors, appointments, verify, request,
                   hourPassed>>
    /\ UNCHANGED gatewayVars

\* AuthService.register, the rest: delete the temporary users of the email,
\* save a new one with the hashed code and a lifetime of one hour.
RegisterSave(r) ==
    /\ reg[r].pc = "save"
    /\ tempUsers' = {d \in tempUsers : d.email # reg[r].email} \cup
                    {[id |-> r, email |-> reg[r].email, role |-> reg[r].role,
                      otp |-> r]}
    /\ reg' = [reg EXCEPT ![r].pc = "done", ![r].result = "ok"]
    /\ UNCHANGED <<students, tutors, appointments, verify, request, hourPassed>>
    /\ UNCHANGED gatewayVars

\* More than an hour passes after the temporary user was saved.
Tick ==
    /\ ~hourPassed
    /\ tempUsers # {}
    /\ hourPassed' = TRUE
    /\ UNCHANGED <<tempUsers, students, tutors, appointments, reg, verify, request>>
    /\ UNCHANGED gatewayVars

\* verifyEmail up to bcrypt.compare: findOne({email}); NotFound without a
\* temporary user, NotFound without a code.
VerifyFindOne(v, e, otp) ==
    /\ verify[v].pc = "idle"
    /\ LET found == {d \in tempUsers : d.email = e}
       IN  verify' = [verify EXCEPT ![v] =
               IF found = {} \/ otp = "none"
               THEN [IdleVerify EXCEPT !.pc = "done", !.email = e, !.otp = otp,
                                       !.result = "NotFound"]
               ELSE [IdleVerify EXCEPT !.pc = "compare", !.email = e,
                                       !.otp = otp, !.doc = found]]
    /\ UNCHANGED <<tempUsers, students, tutors, appointments, reg, request,
                   hourPassed>>
    /\ UNCHANGED gatewayVars

\* verifyEmail after bcrypt.compare: Unauthorized on a wrong code,
\* BadRequest on an expired one.  The deleteOne of the expired branch is a
\* query that is never executed, so the document stays.
VerifyCompare(v) ==
    /\ verify[v].pc = "compare"
    /\ LET d == CHOOSE x \in verify[v].doc : TRUE
       IN  verify' = [verify EXCEPT ![v] =
               IF verify[v].otp # d.otp
               THEN [@ EXCEPT !.pc = "done", !.result = "Unauthorized"]
               ELSE IF hourPassed
               THEN [@ EXCEPT !.pc = "done", !.result = "BadRequest"]
               ELSE [@ EXCEPT !.pc = "delete"]]
    /\ UNCHANGED <<tempUsers, students, tutors, appointments, reg, request,
                   hourPassed>>
    /\ UNCHANGED gatewayVars

\* await this.tempUserModel.findByIdAndDelete(tempUser._id): the result,
\* null when the document is gone already, is not looked at.
VerifyDelete(v) ==
    /\ verify[v].pc = "delete"
    /\ LET d == CHOOSE x \in verify[v].doc : TRUE
       IN  tempUsers' = {x \in tempUsers : x.id # d.id}
    /\ verify' = [verify EXCEPT ![v].pc = "create"]
    /\ UNCHANGED <<students, tutors, appointments, reg, request, hourPassed>>
    /\ UNCHANGED gatewayVars

\* createStudent / createTutor from the temporary user read at the start.
\* A duplicate email is rejected by the unique index; createStudent turns
\* that into InternalServerErrorException, which verifyEmail passes on as
\* InternalServerErrorException.
VerifyCreate(v) ==
    /\ verify[v].pc = "create"
    /\ LET d == CHOOSE x \in verify[v].doc : TRUE
           coll == IF d.role = "student" THEN students ELSE tutors
       IN  IF CanCreate(coll, d.email)
           THEN \E id \in FreshId :
                   /\ students' = IF d.role = "student"
                                  THEN Insert(students, id, d.email)
                                  ELSE students
                   /\ tutors' = IF d.role = "student"
                                THEN tutors
                                ELSE Insert(tutors, id, d.email)
                   /\ verify' = [verify EXCEPT ![v].pc = "sign", ![v].user = id]
           ELSE /\ verify' = [verify EXCEPT ![v].pc = "done",
                                  ![v].result = "InternalServerError"]
                /\ UNCHANGED <<students, tutors>>
    /\ UNCHANGED <<tempUsers, appointments, reg, request, hourPassed>>
    /\ UNCHANGED gatewayVars

\* jwtService.signAsync and the return of {data, accessToken}.
VerifySign(v) ==
    /\ verify[v].pc = "sign"
    /\ verify' = [verify EXCEPT ![v].pc = "done", ![v].result = "ok"]
    /\ UNCHANGED <<tempUsers, students, tutors, appointments, reg, request,
                   hourPassed>>
    /\ UNCHANGED gatewayVars

\* StudentService.createStudent: studentModel.create.
CreateStudent(id, e) ==
    /\ id \in FreshId
    /\ CanCreate(students, e)
    /\ students' = Insert(students, id, e)
    /\ UNCHANGED <<tempUsers, tutors, appointments, reg, verify, request,
                   hourPassed>>
    /\ UNCHANGED gatewayVars

\* TutorService.createTutor: tutorModel.create.
CreateTutor(id, e) ==
    /\ id \in FreshId
    /\ CanCreate(tutors, e)
    /\ tutors' = Insert(tutors, id, e)
    /\ UNCHANGED <<tempUsers, students, appointments, reg, verify, request,
                   hourPassed>>
    /\ UNCHANGED gatewayVars

\* requestAppointment up to the first await resolved: newAppointment.save()
\* stores the document; status takes the schema default 'pending'.
RequestSave(q, studentId, tutorId) ==
    /\ request[q].pc = "idle"
    /\ appointments' =
           [k \in DOMAIN appointments \cup {q} |->
               IF k = q
               THEN [student |-> studentId, tutor |-> tutorId,
                     status |-> "pending"]
               ELSE appointments[k]]
    /\ request' = [request EXCEPT ![q] =
                      [pc |-> "tutor", student |-> studentId,
                       tutor |-> tutorId, result |-> "-"]]
    /\ UNCHANGED <<tempUsers, students, tutors, reg, verify, hourPassed>>
    /\ UNCHANGED gatewayVars

\* newAppointment.save() rejects: nothing is stored, the catch block throws
\* InternalServerErrorException.
RequestSaveFails(q, studentId, tutorId) ==
    /\ request[q].pc = "idle"
    /\ request' = [request EXCEPT ![q] =
                      [pc |-> "done", student |-> studentId,
                       tutor |-> tutorId, result |-> "InternalServerError"]]
    /\ UNCHANGED <<tempUsers, students, tutors, appointments, reg, verify,
                   hourPassed>>
    /\ UNCHANGED gatewayVars

\* tutorService.addAppointment resolves: findByIdAndUpdate pushes the id
\* when the tutor exists and resolves to null, with no error, when not.
RequestAddTutor(q) ==
    /\ request[q].pc = "tutor"
    /\ tutors' = PushAppointment(tutors, request[q].tutor, q)
    /\ request' = [request EXCEPT ![q].pc = "student"]
    /\ UNCHANGED <<tempUsers, students, appointments, reg, verify, hourPassed>>
    /\ UNCHANGED gatewayVars

\* tutorService.addAppointment rejects (the store fails the update): it
\* throws NotFoundException, which requestAppointment passes on.  The saved
\* appointment is not removed.
RequestAddTutorFails(q) ==
    /\ request[q].pc = "tutor"
    /\ request' = [request EXCEPT ![q].pc = "done", ![q].result = "NotFound"]
    /\ UNCHANGED <<tempUsers, students, tutors, appointments, reg, verify,
                   hourPassed>>
    /\ UNCHANGED gatewayVars

\* studentService.addAppointment resolves, and the appointment is returned.
RequestAddStudent(q) ==
    /\ request[q].pc = "student"
    /\ students' = PushAppointment(students, request[q].student, q)
    /\ request' = [request EXCEPT ![q].pc = "done", ![q].result = "ok"]
    /\ UNCHANGED <<tempUsers, tutors, appointments, reg, verify, hourPassed>>
    /\ UNCHANGED gatewayVars

\* studentService.addAppointment rejects: NotFoundException is passed on;
\* the appointment and the tutor's reference stay.
RequestAddStudentFails(q) ==
    /\ request[q].pc = "student"
    /\ request' = [request EXCEPT ![q].pc = "done", ![q].result = "NotFound"]
    /\ UNCHANGED <<tempUsers, students, tutors, appointments, reg, verify,
                   hourPassed>>
    /\ UNCHANGED gatewayVars

\* ------------------------------------------------------------ input sets
\* The display names, room ids and relay targets the clients send.  Each
\* specification draws its payloads from the sets its handlers read.
OneName == {"alice"}
JoinKey == {"R1"} \cup ConnId

\* ------------------------------------------------------------------- Next
\* Rooms, presence and media flags: connect, disconnect, join, leave, toggle.
Next ==
    \/ \E c \in ConnId : HandleConnection(c)
    \/ \E c \in ConnId : Disconnect(c)
    \/ \E c \in ConnId, r \in RoomName, n \in OneName : HandleJoinRoom(c, r, n)
    \/ \E i \in 1..MaxPending : JoinRoomResume(i)
    \/ \E i \in 1..MaxPending : JoinRoomCatch(i)
    \/ \E c \in ConnId, r \in RoomName : HandleLeaveRoom(c, r)
    \/ \E c \in ConnId, r \in RoomName, t \in SwitchTarget :
           HandleToggleCameraAudio(c, r, t)

Spec == Init /\ [][Next]_vars

\* Rooms and display names: connect, disconnect, join, leave, check-user.
NextCheck ==
    \/ \E c \in ConnId : HandleConnection(c)
    \/ \E c \in ConnId : Disconnect(c)
    \/ \E c \in ConnId, r \in RoomName, n \in UserName : HandleJoinRoom(c, r, n)
    \/ \E i \in 1..MaxPending : JoinRoomResume(i)
    \/ \E i \in 1..MaxPending : JoinRoomCatch(i)
    \/ \E c \in ConnId, r \in RoomName : HandleLeaveRoom(c, r)
    \/ \E c \in ConnId, r \in RoomName, n \in UserName : HandleCheckUser(c, r, n)
    \/ \E i \in 1..MaxPending : CheckUserThen(i)

SpecCheck == Init /\ [][NextCheck]_vars

\* Rooms and relays: connect, disconnect, join (room names and socket ids
\* as room ids), leave, call-user, accept-call, send-message.
NextRelay ==
    \/ \E c \in ConnId : HandleConnection(c)
    \/ \E c \in ConnId : Disconnect(c)
    \/ \E c \in ConnId, r \in JoinKey, n \in OneName : HandleJoinRoom(c, r, n)
    \/ \E i \in 1..MaxPending : JoinRoomResume(i)
    \/ \E i \in 1..MaxPending : JoinRoomCatch(i)
    \/ \E c \in ConnId, r \in JoinKey : HandleLeaveRoom(c, r)
    \/ \E c \in ConnId, t \in RoomKey, f \in ConnId, s \in Signal :
           HandleCallUser(c, t, f, s)
    \/ \E c \in ConnId, t \in RoomKey, s \in Signal : HandleAcceptCall(c, t, s)
    \/ \E c \in ConnId, r \in RoomKey, m \in Msg, n \in OneName :
           HandleSendMessage(c, r, m, n)

SpecRelay == Init /\ [][NextRelay]_vars

\* Every handler at once, over one room, one name and one signal.
OneRoom == {"R1"}
OneSignal == {"offer"}

NextAll ==
    \/ \E c \in ConnId : HandleConnection(c)
    \/ \E c \in ConnId : Disconnect(c)
    \/ \E c \in ConnId, r \in OneRoom, n \in OneName : HandleCheckUser(c, r, n)
    \/ \E i \in 1..MaxPending : CheckUserThen(i)
    \/ \E c \in ConnId, r \in OneRoom, n \in OneName : HandleJoinRoom(c, r, n)
    \/ \E i \in 1..MaxPending : JoinRoomResume(i)
    \/ \E i \in 1..MaxPending : JoinRoomCatch(i)
    \/ \E c \in ConnId, t \in ConnId, f \in ConnId, s \in OneSignal :
           HandleCallUser(c, t, f, s)
    \/ \E c \in ConnId, t \in ConnId, s \in OneSignal : HandleAcceptCall(c, t, s)
    \/ \E c \in ConnId, r \in OneRoom, m \in Msg, n \in OneName :
           HandleSendMessage(c, r, m, n)
    \/ \E c \in ConnId, r \in OneRoom : HandleLeaveRoom(c, r)
    \/ \E c \in ConnId, r \in OneRoom, t \in SwitchTarget :
           HandleToggleCameraAudio(c, r, t)

SpecAll == Init /\ [][NextAll]_vars

\* Display names and media flags: join with two names in one room, toggle.
NextPresence ==
    \/ \E c \in ConnId : HandleConnection(c)
    \/ \E c \in ConnId : Disconnect(c)
    \/ \E c \in ConnId, r \in OneRoom, n \in UserName : HandleJoinRoom(c, r, n)
    \/ \E i \in 1..MaxPending : JoinRoomResume(i)
    \/ \E i \in 1..MaxPending : JoinRoomCatch(i)
    \/ \E c \in ConnId, r \in OneRoom : HandleLeaveRoom(c, r)
    \/ \E c \in ConnId, r \in OneRoom, t \in SwitchTarget :
           HandleToggleCameraAudio(c, r, t)

SpecPresence == Init /\ [][NextPresence]_vars

\* Registration and email verification.
NextAuth ==
    \/ \E r \in RegId, e \in OneEmail, role \in Role : RegisterCheck(r, e, role)
    \/ \E r \in RegId : RegisterSave(r)
    \/ Tick
    \/ \E v \in Caller, e \in OneEmail, otp \in Otp : VerifyFindOne(v, e, otp)
    \/ \E v \in Caller : VerifyCompare(v)
    \/ \E v \in Caller : VerifyDelete(v)
    \/ \E v \in Caller : VerifyCreate(v)
    \/ \E v \in Caller : VerifySign(v)

SpecAuth == Init /\ [][NextAuth]_vars

\* Accounts and appointment requests.
NextAppointment ==
    \/ \E id \in UserId, e \in Email : CreateStudent(id, e)
    \/ \E id \in UserId, e \in Email : CreateTutor(id, e)
    \/ \E q \in Requester, s \in UserId, t \in UserId : RequestSave(q, s, t)
    \/ \E q \in Requester, s \in UserId, t \in UserId : RequestSaveFails(q, s, t)
    \/ \E q \in Requester : RequestAddTutor(q)
    \/ \E q \in Requester : RequestAddTutorFails(q)
    \/ \E q \in Requester : RequestAddStudent(q)
    \/ \E q \in Requester : RequestAddStudentFails(q)

SpecAppointment == Init /\ [][NextAppointment]_vars

\* ----------------------------------------------------------------- claims
\* The rooms a connection is in by its own doing: every room it is a member
\* of except the one socket.io names after its id.
JoinedRooms(c) == {r \in RoomKey \ {c} : c \in rooms[r]}

\* C1: the member set of a room R is exactly the set of connections that
\* issued join-room(R) and have not since issued leave-room(R) or
\* disconnected.  Both sets start empty, so they are equal in every state
\* iff every step changes the member set as the events prescribe: a
\* join-room(R) by c adds c, a leave-room(R) by c or a disconnect of c
\* removes c, nothing else changes it.
C1_MembersAreJoinedNotLeft ==
    [][\A r \in RoomName :
         rooms'[r] =
            CASE last'.op = "join-room" /\ last'.roomId = r ->
                     rooms[r] \cup {last'.client}
              [] last'.op = "leave-room" /\ last'.roomId = r ->
                     rooms[r] \ {last'.client}
              [] last'.op = "disconnect" -> rooms[r] \ {last'.client}
              [] OTHER -> rooms[r]]_vars

\* C2: once a member c of room R has completed leave-room(R), c is not in
\* the member set of R and has no socketList entry, and both stay so until
\* c issues a new join-room.
C2_LeftMeansGone ==
    [][\A c \in ConnId, r \in RoomName :
         LET Gone(rs, list) == c \notin rs[r] /\ ~HasPresence(list, c)
         IN  /\ (last'.op = "leave-room" /\ last'.client = c /\ last'.roomId = r
                   /\ last'.wasMember)
                => Gone(rooms', socketList')
             /\ (Gone(rooms, socketList)
                   /\ ~(last'.op = "join-room" /\ last'.client = c))
                => Gone(rooms', socketList')]_vars

\* C3: a connection the transport has reported closed is a member of no
\* room and has no socketList entry, in every later state.
C3_ClosedLeavesNothing ==
    \A c \in ConnId :
        status[c] = "closed" =>
            /\ \A r \in RoomKey : c \notin rooms[r]
            /\ ~HasPresence(socketList, c)

\* C4: between handler steps, a connection has a socketList entry iff it is
\* a member of exactly one room.
C4_PresenceIffOneRoom ==
    \A c \in ConnId :
        HasPresence(socketList, c) <=> Cardinality(JoinedRooms(c)) = 1

\* C5: join-room is idempotent for membership: a join-room(R) by a
\* connection already in R leaves the member set of R as it was (same size,
\* the connection in it once), and when the handler resumes it still emits
\* user-joined to the other members of R.
C5_RejoinIsIdempotent ==
    [][LET c == last'.client
           r == last'.roomId
       IN  /\ (last'.op = "join-room" /\ last'.wasMember) =>
                  /\ rooms'[r] = rooms[r]
                  /\ Cardinality(rooms'[r]) = Cardinality(rooms[r])
                  /\ c \in rooms'[r]
           /\ (last'.op = "join-room-resume" /\ last'.wasMember) =>
                  /\ Len(emitted') = 1
                  /\ emitted'[1].ev = "FE-user-join"
                  /\ emitted'[1].rcpt = rooms'[r] \ {c}]_vars

\* C5 witness: a re-join of a room with another member has resumed and the
\* other member was sent user-joined.
C5_Witness ==
    /\ last.op = "join-room-resume"
    /\ last.wasMember
    /\ Len(emitted) = 1
    /\ emitted[1].rcpt # {}
    /\ last.client \in rooms[last.roomId]

\* C6: toggle-media by a connection without a socketList entry emits
\* nothing, raises no error in the handler and leaves socketList unchanged.
C6_ToggleWithoutPresenceIsSilent ==
    [][(last'.op = "toggle" /\ ~last'.hadPresence) =>
           /\ emitted' = << >>
           /\ ~last'.threw
           /\ socketList' = socketList]_vars

\* C7: call-user and accept-call addressed to a connection id that is not
\* a live connection deliver nothing to any connection and do not fail.
C7_RelayToDeadIdIsNoOp ==
    (last.op \in {"call-user", "accept-call"}
       /\ last.target \in ConnId /\ status[last.target] # "live")
    => /\ \A i \in 1..Len(emitted) : emitted[i].rcpt = {}
       /\ ~last.threw

\* C8: check-name-in-use(R, n) emits nothing until its membership read has
\* resolved, reads the members of R as they are when it is called, and then
\* sends one FE-error-user-exist, to the requester only, whose flag is TRUE
\* iff one of the members read has a socketList entry whose userName is
\* exactly n.
C8_CheckUserAnswer ==
    [][LET c == last'.client
           r == last'.roomId
           n == last'.name
       IN  /\ last'.op = "check-user" =>
                  /\ emitted' = << >>
                  /\ Len(pending') = Len(pending) + 1
                  /\ pending'[Len(pending')].clients = rooms[r]
                  /\ last'.clients = rooms[r]
           /\ last'.op = "check-user-then" =>
                  /\ Len(emitted') = 1
                  /\ emitted'[1].ev = "FE-error-user-exist"
                  /\ emitted'[1].rcpt \subseteq {c}
                  /\ status'[c] = "live" => emitted'[1].rcpt = {c}
                  /\ emitted'[1].payload.error =
                        (\E m \in last'.clients :
                            /\ m \in DOMAIN socketList'
                            /\ socketList'[m].userName = n)]_vars

\* C8 witness: a connection outside the room asked for the name "Alice",
\* which a member of the room carries, and was answered TRUE.
C8_Witness ==
    /\ last.op = "check-user-then"
    /\ Len(emitted) = 1
    /\ emitted[1].rcpt = {last.client}
    /\ emitted[1].payload.error
    /\ last.client \notin last.clients
    /\ last.name = "Alice"

\* C9: send-room-message(R, text, senderLabel) delivers {text, senderLabel}
\* as sent to every member of R, the sender included when it is a member,
\* and to no connection outside R.
C9_MessageToWholeRoom ==
    last.op = "send-message" =>
        /\ Len(emitted) = 1
        /\ emitted[1].ev = "FE-receive-message"
        /\ emitted[1].payload = [msg |-> last.msg, sender |-> last.name]
        /\ \A d \in ConnId : d \in emitted[1].rcpt <=> d \in rooms[last.roomId]
        /\ last.wasMember => last.client \in emitted[1].rcpt

\* C9 witness: a member sent a message to its room of two and both got it.
C9_Witness ==
    /\ last.op = "send-message"
    /\ last.roomId \in RoomName
    /\ last.wasMember
    /\ Len(emitted) = 1
    /\ emitted[1].rcpt = ConnId

\* C10: toggle-media(R, kind), kind video or audio, by a connection c with
\* a socketList entry flips c's flag of that kind and delivers
\* {userId: c, switchTarget: kind} to every other member of R, not to c.
C10_ToggleFlipsAndTellsOthers ==
    [][(last'.op = "toggle" /\ last'.hadPresence
          /\ last'.target \in {"video", "audio"}) =>
           LET c == last'.client
               r == last'.roomId
               k == last'.target
           IN  /\ HasPresence(socketList', c)
               /\ socketList'[c][k] = ~socketList[c][k]
               /\ emitted' = Emit("FE-toggle-camera", rooms[r] \ {c},
                                  [userId |-> c, switchTarget |-> k])
               /\ c \notin emitted'[1].rcpt]_vars

\* C10 witness: a member switched its video off and the other member of the
\* room was told.
C10_Witness ==
    /\ last.op = "toggle"
    /\ last.hadPresence
    /\ last.target = "video"
    /\ ~socketList[last.client].video
    /\ Len(emitted) = 1
    /\ emitted[1].rcpt # {}
    /\ last.client \in rooms[last.roomId]

\* C11: every user-joined notification of a join-room(R) by c carries the
\* member list of R read after c's join: c is in it, it has one entry for
\* every member read, every entry carries a defined presence, and it goes
\* to every other member of R and not to c, whatever ran in between.
C11_UserJoinListIsComplete ==
    last.op = "join-room-resume" =>
        LET c == last.client
            r == last.roomId
            users == emitted[1].payload
        IN  /\ Len(emitted) = 1
            /\ emitted[1].ev = "FE-user-join"
            /\ c \in last.clients
            /\ {u.userId : u \in users} = last.clients
            /\ \A u \in users : u.info # {}
            /\ emitted[1].rcpt = rooms[r] \ {c}

\* C12: call-user is point-to-point: FE-receive-call goes to the one
\* connection whose id is the target and to nobody else, with the signal as
\* sent and the sender's presence attached.
C12_CallUserIsPointToPoint ==
    last.op = "call-user" =>
        /\ Len(emitted) = 1
        /\ emitted[1].ev = "FE-receive-call"
        /\ emitted[1].rcpt \subseteq {last.target}
        /\ (last.target \in ConnId /\ status[last.target] = "live")
               => emitted[1].rcpt = {last.target}
        /\ emitted[1].payload.signal = last.signal
        /\ emitted[1].payload.info = Info(socketList, last.client)

\* C13: accept-call(to, signal) by c delivers {signal, answerId} to the
\* connection `to` only, the signal as sent and answerId c's own id.
C13_AcceptCallIsPointToPoint ==
    last.op = "accept-call" =>
        /\ Len(emitted) = 1
        /\ emitted[1].ev = "FE-call-accepted"
        /\ emitted[1].rcpt \subseteq {last.target}
        /\ (last.target \in ConnId /\ status[last.target] = "live")
               => emitted[1].rcpt = {last.target}
        /\ emitted[1].payload = [signal |-> last.signal, answerId |-> last.client]

\* C14: leave-room(R) by a member c sends user-left with c's id to exactly
\* the other members of R at the moment of leaving, and not to c.
C14_UserLeftToOthers ==
    [][(last'.op = "leave-room" /\ last'.wasMember) =>
           LET c == last'.client
               r == last'.roomId
           IN  /\ Len(emitted') = 1
               /\ emitted'[1].ev = "FE-user-leave"
               /\ emitted'[1].payload.userId = c
               /\ \A d \in ConnId :
                      d \in emitted'[1].rcpt <=> (d \in rooms[r] /\ d # c)]_vars

\* C14 witness: a member left a room of two and the other one was told.
C14_Witness ==
    /\ last.op = "leave-room"
    /\ last.wasMember
    /\ Len(emitted) = 1
    /\ emitted[1].rcpt # {}
    /\ last.client \notin emitted[1].rcpt

\* C15: when the transport reports the disconnect of a connection c that is
\* in rooms, the leave-room cleanup runs for c: the remaining members of
\* each of c's rooms are sent user-left for c, and c's presence is removed.
C15_DisconnectCleansUp ==
    [][last'.op = "disconnect" =>
           LET c == last'.client
           IN  /\ ~HasPresence(socketList', c)
               /\ \A r \in RoomName :
                      (c \in rooms[r] /\ rooms[r] \ {c} # {}) =>
                          \E i \in 1..Len(emitted') :
                              /\ emitted'[i].ev = "FE-user-leave"
                              /\ emitted'[i].payload.userId = c
                              /\ rooms[r] \ {c} \subseteq emitted'[i].rcpt]_vars

\* C16: no handler fails with an exception, whatever entity its event
\* refers to is missing; it does nothing or emits one event.
C16_NoHandlerThrows ==
    /\ ~last.threw
    /\ Len(emitted) <= 1

\* C17: when the membership read of join-room fails, the handler emits one
\* event only, the error flag to the requester, and no user-joined.
C17_ReadFailureToldToRequesterOnly ==
    /\ last.op = "join-room" => emitted = << >>
    /\ last.op = "join-room-catch" =>
           /\ Len(emitted) = 1
           /\ emitted[1].ev = "FE-error-user-exist"
           /\ emitted[1].payload = [err |-> TRUE]
           /\ emitted[1].rcpt \subseteq {last.client}
           /\ status[last.client] = "live" => emitted[1].rcpt = {last.client}

\* C17 witness: the read failed for a join of a room with another member,
\* and the requester alone was told.
C17_Witness ==
    /\ last.op = "join-room-catch"
    /\ Len(emitted) = 1
    /\ emitted[1].rcpt = {last.client}
    /\ rooms[last.roomId] \ {last.client} # {}

\* The rooms connection c is in, in the adapter state rs, its own id's
\* room apart.
RoomsOf(rs, c) == {r \in RoomKey \ {c} : c \in rs[r]}

\* C18: a connection that is Unjoined, or Left after a leave-room(R), and
\* issues join-room(R', name) is a member of R' only and has a fresh
\* presence: the new name, video and audio on.
C18_RejoinAfterLeave ==
    [][(last'.op = "join-room" /\ ~last'.hadPresence) =>
           LET c == last'.client
           IN  /\ RoomsOf(rooms', c) = {last'.roomId}
               /\ HasPresence(socketList', c)
               /\ socketList'[c] = [userName |-> last'.name,
                                    video |-> TRUE, audio |-> TRUE]]_vars

\* C19: the presence of a connection c is created, changed or removed only
\* by a step whose originating connection is c.
C19_PresenceOwnedBySender ==
    [][\A c \in ConnId :
           Info(socketList', c) # Info(socketList, c) => last'.client = c]_vars

\* C19 witness: a connection with a presence toggled a flag while another
\* connection had a presence too.
C19_Witness ==
    /\ last.op = "toggle"
    /\ last.hadPresence
    /\ \E d \in ConnId \ {last.client} :
           /\ HasPresence(socketList, d)
           /\ socketList[d] = NewPresence(socketList[d].userName)
    /\ socketList[last.client] # NewPresence(socketList[last.client].userName)

\* C20: toggle-media flips the flag it names and nothing else: video leaves
\* audio and the name alone, audio leaves video and the name alone, any
\* other value changes no flag.
C20_ToggleFlipsNamedFlagOnly ==
    [][(last'.op = "toggle" /\ last'.hadPresence) =>
           LET c == last'.client
               k == last'.target
               old == socketList[c]
               new == socketList'[c]
           IN  /\ HasPresence(socketList', c)
               /\ new.userName = old.userName
               /\ new.video = (IF k = "video" THEN ~old.video ELSE old.video)
               /\ new.audio = (IF k = "audio" THEN ~old.audio ELSE old.audio)]_vars

\* C21: join-room(R, name) by c leaves c's presence equal to {name, video
\* on, audio on} whatever it was before, flags switched off included, and a
\* join repeated on that presence leaves the whole registry as it was.
C21_JoinOverwritesPresence ==
    [][last'.op = "join-room" =>
           LET c == last'.client
               fresh == [userName |-> last'.name, video |-> TRUE, audio |-> TRUE]
           IN  /\ HasPresence(socketList', c)
               /\ socketList'[c] = fresh
               /\ (HasPresence(socketList, c) /\ socketList[c] = fresh)
                      => socketList' = socketList]_vars

\* C21 witness: a connection that had a presence joined again under the
\* other name and carries that name with both flags on.
C21_Witness ==
    /\ last.op = "join-room"
    /\ last.hadPresence
    /\ last.wasMember
    /\ last.name = "Alice"
    /\ socketList[last.client] = NewPresence("Alice")

C23_AtMostOneRoom ==
    \A c \in ConnId : Cardinality(RoomsOf(rooms, c)) <= 1

C25_DisconnectDuringJoin ==
    (last.op = "join-room-resume" /\ status[last.client] = "closed") =>
        /\ ~HasPresence(socketList, last.client)
        /\ \A r \in RoomKey : last.client \notin rooms[r]
        /\ \A i \in 1..Len(emitted) :
               \/ emitted[i].rcpt = {}
               \/ \A u \in emitted[i].payload : u.userId # last.client

\* C26: in every FE-receive-call the from field is the id of the connection
\* that sent BE-call-user, the one whose presence is attached as info.
C26_FromIsSender ==
    last.op = "call-user" =>
        \A i \in 1..Len(emitted) :
            emitted[i].rcpt # {} =>
                /\ emitted[i].payload.from = last.client
                /\ emitted[i].payload.info =
                       Info(socketList, emitted[i].payload.from)

\* C27: a connection receives a user-left or a toggle notification naming c
\* for room R only if c was a member of R when it sent the event.
C27_RoomNoticesFromMembersOnly ==
    (last.op \in {"leave-room", "toggle"}) =>
        \A i \in 1..Len(emitted) :
            emitted[i].rcpt # {} => last.wasMember

\* C28: check-name-in-use, call-user, accept-call and send-room-message
\* leave the registry and every member set unchanged.
C28_RelaysChangeNothing ==
    [][last'.op \in {"check-user", "check-user-then", "call-user",
                     "accept-call", "send-message"} =>
           /\ socketList' = socketList
           /\ rooms' = rooms]_vars

\* C28 witness: a message was sent to a room with two members, both with a
\* presence.
C28_Witness ==
    /\ last.op = "send-message"
    /\ rooms[last.roomId] = ConnId
    /\ DOMAIN socketList = ConnId
    /\ Len(emitted) = 1

\* The verifyEmail calls that have returned {data, accessToken}.
Verified == {v \in Caller : verify[v].pc = "done" /\ verify[v].result = "ok"}

\* C29: one registration yields at most one account.  Of the verifyEmail
\* calls for the email, at most one creates a user and returns a token;
\* every other call, and every call after a verification, ends with
\* NotFound and creates nothing; a call with a wrong or an expired code
\* creates no user.
C29_OneRegistrationOneAccount ==
    /\ Cardinality(DOMAIN students) + Cardinality(DOMAIN tutors) <= 1
    /\ Cardinality(Verified) <= 1
    /\ \A v \in Caller :
           verify[v].pc = "done" =>
               /\ verify[v].result \in {"Unauthorized", "BadRequest"}
                      => verify[v].user = "-"
               /\ (verify[v].result # "ok" /\ verify[v].otp \in RegId
                     /\ ~hourPassed)
                      => /\ verify[v].result = "NotFound"
                         /\ verify[v].user = "-"

\* C30: requestAppointment is all-or-nothing.  When it ends with an error
\* no appointment of the call is stored; when it succeeds the appointment
\* is stored with status 'pending' and both the tutor and the student it
\* names reference it.
C30_RequestAllOrNothing ==
    \A q \in Requester :
        request[q].pc = "done" =>
            IF request[q].result = "ok"
            THEN /\ q \in DOMAIN appointments
                 /\ appointments[q].status = "pending"
                 /\ request[q].tutor \in DOMAIN tutors
                 /\ q \in tutors[request[q].tutor].appointments
                 /\ request[q].student \in DOMAIN students
                 /\ q \in students[request[q].student].appointments
            ELSE q \notin DOMAIN appointments

====
